---- MODULE Spec2Model ----
(***************************************************************************)
(* Reactive signal graph of git-illuma/react (signals/core):               *)
(*   signal()        writable cell            (core/signal.ts)             *)
(*   computed()      derived, read-only       (core/computed.ts)           *)
(*   linkedSignal()  derived and overridable  (core/linked.ts)             *)
(*   SignalContext   dependency tracking      (core/context.ts)            *)
(* Every public call (construction, read, set, update, subscribe, call of  *)
(* an unsubscribe closure) is one action; the synchronous, re-entrant      *)
(* propagation it causes is computed by the recursive operators below,     *)
(* which thread a record `st` holding the state of all signals.            *)
(***************************************************************************)
EXTENDS Integers, Sequences, FiniteSets, TLC

\* ------------------------------------------------------------------ bounds
MaxVal == 2          \* signal values range over 0..MaxVal
MaxHeld == 2         \* number of distinct (signal, listener) subscriptions a run makes
MaxRetry == 1        \* number of times a subscribe that threw is tried again

\* The custom equality policy of the tests: equal: (a, b) => Math.abs(a - b) < 2
EqBound == 2

Val == 0..MaxVal
InitVals == {0, 1}   \* values given to signal(v0)

\* ------------------------------------------------------- the signal graph
\* const a = signal(v0);  const b = signal(v0);
\* const n = signal(v0, {equal: near});
\* const sum = computed(() => a() + b(), {equal?});
\* const inc = computed(() => a() + 1);
\* const dbl = computed(() => (inc() * 2) % (MaxVal + 1));
\* const lk  = linkedSignal(() => a() * 2);
\* const lc  = linkedSignal({source: a, computation: (src) => src + 1, equal?});
\* (the arithmetic saturates at MaxVal, or wraps, to keep the value domain finite)
\* const thr = computed(() => { const x = a(); if (x === MaxVal) throw E; return x; });
\* const thl = linkedSignal(() => { const x = a(); if (x === MaxVal) throw E; return x; });
\* const lp  = linkedSignal({source: a, computation: (src, prev) =>
\*               prev === undefined || prev.source !== src ? src : prev.prevValue});
\* const ls  = linkedSignal(a);
\* calls of linkedSignal that hand it something else:
\*   ln = linkedSignal(undefined)        lo = linkedSignal({computation: (src) => src})
\*   lm = linkedSignal({source: a})      lf = linkedSignal({source: pf, computation: (src) => src})
\* with pf = () => 1, a function that is not a signal
\* computations whose reads depend on what they have read:
\*   const br  = computed(() => f() ? a() : b());
\*   const thp = linkedSignal(() => { const x = a(); if (x === MaxVal) throw E; return inc(); });
\* a computation that constructs a signal of its own on each run, and drops it:
\*   const out = linkedSignal(() => {
\*     /* inr = */ linkedSignal(() => { const x = a(); if (x === MaxVal) throw E; return x; });
\*     return a(); });
\* a diamond: two computed signals over a and over a computed signal of a,
\* which read the two in either order
\*   const mid = computed(() => (a() + 1) % (MaxVal + 1));
\*   const dia = computed(() => (a() + mid()) % (MaxVal + 1));
\*   const dib = computed(() => (mid() + a()) % (MaxVal + 1));
Sig == {"a", "b", "n", "sum", "inc", "dbl", "lk", "lc", "thr", "thl", "lp",
        "ls", "ln", "lo", "lm", "lf", "f", "br", "thp", "out", "inr",
        "mid", "dia", "dib"}
\* the plain functions of the programs
Fns == {"pf"}

\* the programs: which of these signals one run constructs
Plans == {{"a", "b", "sum"}, {"a", "inc", "dbl"}, {"a", "lk"}, {"a", "lc"}, {"n"}}
\* the programs with a computation that can throw and a listener that throws
PlansX == {{"a", "thr"}, {"a", "thl"}}
\* the programs with a listener that unsubscribes another one, whose callers
\* call unsubscribe closures a second time
PlansU == {{"a", "inc"}}
\* the programs whose dependency tracking has branches, partial runs and
\* nested frames
PlansT == {{"f", "a", "b", "br"}, {"a", "inc", "thp"}, {"a", "out"}}
\* the programs with a computation that looks at its second argument
PlansD == {{"a", "lp"}, {"a", "ls"}, {"a", "ln", "lo", "lm", "lf"}}
\* the programs with a diamond
PlansG == {{"a", "mid", "dia"}, {"a", "mid", "dib"}}

Kind(s) ==
  CASE s \in {"a", "b", "n", "f"} -> "signal"
    [] s \in {"sum", "inc", "dbl", "thr", "br", "mid", "dia", "dib"} -> "computed"
    [] OTHER -> "linked"

\* linkedSignal's argument dispatch: a plain function, a signal or a
\* configuration object; what else it is handed: nothing, an object without
\* `source`, an object without `computation`
Form(s) ==
  CASE s \in {"lc", "lp", "lf"} -> "cfg"
    [] s = "ls" -> "sig"
    [] s = "ln" -> "nil"
    [] s = "lo" -> "nosrc"
    [] s = "lm" -> "nocomp"
    [] OTHER -> "fn"

\* the signals the computation (or the source) can read, in reading order
Args(s) ==
  CASE s = "sum" -> <<"a", "b">>
    [] s = "inc" -> <<"a">>
    [] s = "dbl" -> <<"inc">>
    [] s = "lk" -> <<"a">>
    [] s = "lc" -> <<"a">>
    [] s = "lp" -> <<"a">>
    [] s \in {"ls", "lm"} -> <<"a">>
    [] s = "lf" -> <<"pf">>
    [] s = "br" -> <<"f", "a", "b">>
    [] s = "thp" -> <<"a", "inc">>
    [] s \in {"out", "inr"} -> <<"a">>
    [] s \in {"thr", "thl"} -> <<"a">>
    [] s = "mid" -> <<"a">>
    [] s = "dia" -> <<"a", "mid">>
    [] s = "dib" -> <<"mid", "a">>
    [] OTHER -> <<>>

\* the signal the computation of s reads next, having read the values vs;
\* "-" when it reads no more
NextRead(s, vs) ==
  CASE s = "br" -> IF vs = <<>> THEN "f"
                   ELSE IF Len(vs) > 1 THEN "-"
                   ELSE IF vs[1] # 0 THEN "a" ELSE "b"
    [] s = "thp" -> IF vs = <<>> THEN "a"
                    ELSE IF Len(vs) > 1 \/ vs[1] = MaxVal THEN "-"
                    ELSE "inc"
    [] OTHER -> IF Len(vs) < Len(Args(s)) THEN Args(s)[Len(vs) + 1] ELSE "-"

\* the signals the computation of s constructs before it reads
Makes(s) == IF s = "out" THEN <<"inr">> ELSE <<>>

\* the signals and functions of the program that the computation of s, or
\* that of a signal it constructs, refers to
Free(s) ==
  LET Own(q) == {q[i] : i \in 1..Len(q)}
  IN (Own(Args(s)) \ Own(Makes(s))) \cup UNION {Own(Args(m)) : m \in Own(Makes(s))}

Cap(n) == IF n > MaxVal THEN MaxVal ELSE n

\* the arithmetic of the computation over the values it has read; the
\* computation of a configuration object is given <<srcVal>> when prev is
\* undefined and <<srcVal, prev.source, prev.prevValue>> otherwise
Fn(s, vs) ==
  CASE s = "sum" -> Cap(vs[1] + vs[2])
    [] s = "inc" -> Cap(vs[1] + 1)
    [] s = "dbl" -> (vs[1] * 2) % (MaxVal + 1)
    [] s = "lk" -> Cap(vs[1] * 2)
    [] s = "lc" -> Cap(vs[1] + 1)
    [] s = "lp" -> IF Len(vs) = 1 \/ vs[2] # vs[1] THEN vs[1] ELSE vs[3]
    [] s \in {"thr", "thl", "ls", "lf", "out", "inr"} -> vs[1]
    [] s \in {"br", "thp"} -> vs[2]
    [] s = "mid" -> (vs[1] + 1) % (MaxVal + 1)
    [] s \in {"dia", "dib"} -> (vs[1] + vs[2]) % (MaxVal + 1)
    [] OTHER -> 0

\* the computation throws instead of returning, having read the values vs
Throws(s, vs) == s \in {"thr", "thl", "thp", "inr"} /\ vs[1] = MaxVal

\* the equality policies given to the constructor
Policies(s) ==
  CASE s = "n" -> {"near"}
    [] s \in {"sum", "lc"} -> {"strict", "near"}
    [] OTHER -> {"strict"}

Abs(n) == IF n < 0 THEN -n ELSE n

defaultEqual(prev, next) == prev = next

Equal(pol, prev, next) ==
  IF pol = "near" THEN Abs(prev - next) < EqBound ELSE defaultEqual(prev, next)

\* ------------------------------------------------------------- listeners
\* External listeners: L1 and L2 only observe; R re-enters the graph by
\* calling a.set(RVal) each time it is invoked; T throws each time it is
\* invoked; U calls the unsubscribe closure of L2, if one has been returned.
Ext(n) == [k |-> "ext", n |-> n]
Pass(d) == [k |-> "pass", n |-> d]      \* passUpdate of derived signal d
Tomb == [k |-> "tomb", n |-> "-"]       \* emptied slot of a JS Set
NoL == [k |-> "none", n |-> "-"]
ExtNames == {"L1", "L2", "R", "T", "U"}
RSig == "a"
RVal == MaxVal
UTarget == "L2"

\* ------------------------------------------------- JS Set (insertion order)
\* A Set is a list of entries; delete empties the slot in place, add appends
\* unless the element is present; a running for..of skips emptied slots and
\* sees entries appended behind it.  Emptied slots are dropped when no
\* iteration is running (Compact).
SetHas(q, x) == \E i \in 1..Len(q) : q[i] = x
\* mutant of SetAdd: add appends without looking for the element
SetAdd_Dup(q, x) == Append(q, x)

SetAdd(q, x) == IF SetHas(q, x) THEN q ELSE Append(q, x)
\* mutant of SetDelete: the element stays in the set
SetDelete_Keep(q, x) == q

SetDelete(q, x) == [i \in 1..Len(q) |-> IF q[i] = x THEN Tomb ELSE q[i]]
SetSize(q) == Cardinality({i \in 1..Len(q) : q[i] # Tomb})
Compact(q) == SelectSeq(q, LAMBDA x : x # Tomb)

VARIABLES
  created,    \* signals constructed so far
  equal,      \* equal[s]: equality policy of s
  value,      \* value[s]: _state.value
  listeners,  \* listeners[s]: _state.listeners
  cleanups,   \* cleanups[s]: _state.cleanups (derived signals)
  deps,       \* deps[s]: _state.deps (derived signals)
  context,    \* SignalContext._contextStack
  held,       \* unsubscribe closures handed out so far, as <<signal, listener>>
  spent,      \* those of them known to have been called (programs of PlansU)
  log,        \* what the last call did: computations run and listeners invoked, in order
  last,       \* the last call and its result
  plan,       \* the signals this program constructs
  used        \* used[s]: the source value the last evaluation of the computation of
              \* a configuration object was called with (history; programs of PlansD)

vars == <<created, equal, value, listeners, cleanups, deps, context, held, spent, log,
         last, plan, used>>

\* ----------------------------------------------------------- call records
\* t = "comp": the computation of s ran and returned v; rd is the value s
\*             held while it ran
\* t = "throw": the computation of s ran and threw, by itself or because a
\*             call it made threw; rd as for "comp"
\* t = "unsub": a listener called the unsubscribe closure of listener l of
\*             s; act: l was in the listener set of s at that moment
\* t = "scan": SignalContext.scan of the computation of s returned (see Scanned)
\* t = "inv":  listener l of s was called with v, in notification pass p of
\*             the call (p = 0: the delivery made by subscribe); rd is what
\*             s() returns at that moment, act whether the signal whose
\*             passUpdate l is has listeners at that moment
Ev(t, s, l, v, rd, p, act) ==
  [t |-> t, s |-> s, l |-> l, v |-> v, rd |-> rd, p |-> p, act |-> act]

\* The record the operators thread: the state of every signal, the tracking
\* stack, the log of the running call, the number of notification passes
\* started by it, whether an exception is propagating, the closures the
\* listeners can reach, and the source values the computations were given.
Pack == [val |-> value, lst |-> listeners, cln |-> cleanups, deps |-> deps,
         eq |-> equal, ctx |-> context, log |-> <<>>, np |-> 0, exc |-> FALSE,
         hld |-> held, src |-> used]

\* ------------------------------------------------------------ SignalContext
\* mutant of register: the signal is added to every open frame
register_All(st, s) ==
  [st EXCEPT !.ctx = [i \in 1..Len(st.ctx) |-> SetAdd(st.ctx[i], s)]]

\* SignalContext.register: add the signal to the frame on top of the stack
register(st, s) ==
  IF st.ctx = <<>> THEN st ELSE [st EXCEPT !.ctx[Len(st.ctx)] = SetAdd(@, s)]

RECURSIVE Read(_, _)
RECURSIVE Read_Cached(_, _)
RECURSIVE ReadArgs(_, _, _)
RECURSIVE scan(_, _)
RECURSIVE scan_NoFinally(_, _)
RECURSIVE CreateOp(_, _, _, _)
RECURSIVE Construct(_, _, _)
RECURSIVE RunBody(_, _)
RECURSIVE Compute(_, _)
RECURSIVE Derive(_, _, _)

\* the reads the computation of d makes, one after the other, vs being the
\* values read so far
ReadArgs(st, d, vs) ==
  IF st.exc \/ NextRead(d, vs) = "-" THEN [st |-> st, vs |-> vs]
  ELSE LET Rest(r) == ReadArgs(r.st, d, Append(vs, r.v))
       IN Rest(Read(st, NextRead(d, vs)))

\* the constructor calls the computation makes, from position i of `made` on
Construct(st, made, i) ==
  IF st.exc \/ i > Len(made) THEN st
  ELSE Construct(CreateOp(st, made[i], 0, "strict"), made, i + 1)

\* one call of the function given to computed(...) / linkedSignal(fn)
RunBody(st, d) ==
  LET Return(st1, v) ==
        [st |-> [st1 EXCEPT !.log = Append(@, Ev("comp", d, NoL, v, st1.val[d], 0, FALSE))],
         v |-> v]
      Throw(st1) ==
        [st |-> [st1 EXCEPT !.exc = TRUE,
                            !.log = Append(@, Ev("throw", d, NoL, 0, st1.val[d], 0, FALSE))],
         v |-> 0]
      Body(r) == IF r.st.exc \/ Throws(d, r.vs) THEN Throw(r.st)
                 ELSE Return(r.st, Fn(d, r.vs))
  IN Body(ReadArgs(Construct(st, Makes(d), 1), d, <<>>))

\* sourceVal = srcFn(); computation(sourceVal, prev) of linkedSignal({..}):
\* prev is undefined at construction (written <<>>) and {source: sourceVal,
\* prevValue: _state.value} afterwards (written <<source, prevValue>>).  The
\* "comp" record of such a computation also holds the arguments it was given.
Derive(st, d, hasPrev) ==
  LET Return(st1, v, src, prev) ==
        [st |-> [st1 EXCEPT !.log = Append(@, [src |-> src, prev |-> prev]
                                               @@ Ev("comp", d, NoL, v, st1.val[d], 0, FALSE)),
                            !.src[d] = src],
         v |-> v]
      Call2(st1, src, prev) == Return(st1, Fn(d, <<src>> \o prev), src, prev)
      computation(r1) ==
        IF r1.st.exc THEN [st |-> r1.st, v |-> 0]
        ELSE Call2(r1.st, r1.v, IF hasPrev THEN <<r1.v, r1.st.val[d]>> ELSE <<>>)
  IN computation(Read(st, Args(d)[1]))

\* one evaluation of a derived signal:
\*   computed:            next = computation()
\*   linkedSignal(fn):    sourceVal = srcFn() = fn();  next = computation(..) = fn()
\*   linkedSignal({..}):  sourceVal = source();  next = computation(sourceVal, prev)
Compute(st, d) ==
  IF Kind(d) = "computed" THEN RunBody(st, d)
  ELSE IF Form(d) = "fn" THEN
    LET computation(r1) == IF r1.st.exc THEN r1 ELSE RunBody(r1.st, d)
    IN computation(RunBody(st, d))
  ELSE Derive(st, d, TRUE)

\* mutant of Read: signalRef returns the cached value also without listeners
Read_Cached(st, s) ==
  LET Get(st1) == [st |-> st1, v |-> st1.val[s]] IN Get(register(st, s))

\* signalRef(): the read path of the three kinds of signal; the call of a
\* plain function returns its constant
Read(st, s) ==
  IF s \in Fns THEN [st |-> st, v |-> 1] ELSE
  LET Store(r) == IF r.st.exc THEN r
                  ELSE [st |-> [r.st EXCEPT !.val[s] = r.v], v |-> r.v]
      Get(st1) == IF Kind(s) = "signal" \/ SetSize(st1.lst[s]) # 0
                  THEN [st |-> st1, v |-> st1.val[s]]
                  ELSE Store(Compute(st1, s))
  IN Get(register(st, s))

\* what a scan leaves in the log when it returns: the set it returns, the
\* frames on the stack when it was called and when it returns, the length of
\* the log when it was called, and whether the computation threw
Scanned(st, r, d, below) ==
  [set |-> r.st.ctx[Len(r.st.ctx)], before |-> st.ctx, after |-> below,
   from |-> Len(st.log)] @@ Ev("scan", d, NoL, 0, 0, 0, r.st.exc)

\* mutant of scan: the frame is popped after the computation has returned,
\* not in a finally block, and what the computation throws is not caught
scan_NoFinally(st, d) ==
  LET Pop(r, top) ==
        [st |-> [r.st EXCEPT !.ctx = SubSeq(@, 1, top - 1),
                             !.log = Append(@, Scanned(st, r, d, SubSeq(r.st.ctx, 1, top - 1)))],
         set |-> r.st.ctx[top]]
      Leave(r) == [st |-> [r.st EXCEPT !.log = Append(@, Scanned(st, r, d, r.st.ctx))],
                   set |-> r.st.ctx[Len(r.st.ctx)]]
      Finally(r) == IF r.st.exc THEN Leave(r) ELSE Pop(r, Len(r.st.ctx))
  IN Finally(RunBody([st EXCEPT !.ctx = Append(@, <<>>)], d))

\* SignalContext.scan: run the computation inside a fresh frame, swallow what
\* it throws, pop the frame and return it
scan(st, d) ==
  LET Pop(r, top) ==
        [st |-> [r.st EXCEPT !.ctx = SubSeq(@, 1, top - 1), !.exc = FALSE,
                             !.log = Append(@, Scanned(st, r, d, SubSeq(r.st.ctx, 1, top - 1)))],
         set |-> r.st.ctx[top]]
      Finally(r) == Pop(r, Len(r.st.ctx))
  IN Finally(RunBody([st EXCEPT !.ctx = Append(@, <<>>)], d))

\* ----------------------------------------------------- set and propagation
RECURSIVE Invoke(_, _, _, _, _)
RECURSIVE Notify(_, _, _, _, _, _)
RECURSIVE Notify_Reversed(_, _, _, _, _, _)
RECURSIVE Notify_KeepGoing(_, _, _, _, _, _)
RECURSIVE SetOp(_, _, _)
RECURSIVE passUpdate(_, _)
RECURSIVE UnsubOp(_, _, _)
RECURSIVE RunCleanups(_, _, _)

\* mutant of Notify: the listeners are called from the last one to the first
Notify_Reversed(st, s, fixed, v, i, p) ==
  IF st.exc \/ i > Len(st.lst[s]) THEN st
  ELSE LET l == st.lst[s][Len(st.lst[s]) + 1 - i] IN
       IF l = Tomb THEN Notify_Reversed(st, s, fixed, v, i + 1, p)
       ELSE Notify_Reversed(Invoke(st, s, l, IF fixed THEN v ELSE st.val[s], p),
                            s, fixed, v, i + 1, p)

\* mutant of Notify: the loop goes on after a listener has thrown
Notify_KeepGoing(st, s, fixed, v, i, p) ==
  IF i > Len(st.lst[s]) THEN st
  ELSE LET l == st.lst[s][i] IN
       IF l = Tomb THEN Notify_KeepGoing(st, s, fixed, v, i + 1, p)
       ELSE Notify_KeepGoing(Invoke(st, s, l, IF fixed THEN v ELSE st.val[s], p),
                             s, fixed, v, i + 1, p)

\* for (const l of _state.listeners) l(x), from slot i on, as pass number p.
\* signal.set and linkedSignal.set pass the argument of set (fixed);
\* passUpdate passes _state.value, read again for each listener.
Notify(st, s, fixed, v, i, p) ==
  IF st.exc \/ i > Len(st.lst[s]) THEN st
  ELSE LET l == st.lst[s][i] IN
       IF l = Tomb THEN Notify(st, s, fixed, v, i + 1, p)
       ELSE Notify(Invoke(st, s, l, IF fixed THEN v ELSE st.val[s], p),
                   s, fixed, v, i + 1, p)

\* mutant of Invoke: the call is recorded but the listener's body is put off
Invoke_Deferred(st, s, l, v, p) ==
  [st EXCEPT !.log = Append(@, Ev("inv", s, l, v, st.val[s], p, FALSE))]

\* the call l(v) made by signal s: the log records the value passed and the
\* value a read of s returns at that moment, then the listener's body runs
Invoke(st, s, l, v, p) ==
  LET act == l.k = "pass" /\ SetSize(st.lst[l.n]) # 0
      Gone(st1, x) ==
        UnsubOp([st1 EXCEPT !.log = Append(@, Ev("unsub", x, Ext(UTarget), 0, 0, 0,
                                                 SetHas(st1.lst[x], Ext(UTarget))))],
                x, Ext(UTarget))
      Closure(st1, H) == IF H = {} THEN st1 ELSE Gone(st1, (CHOOSE h \in H : TRUE)[1])
      Body(st1) == IF l.k = "pass" THEN passUpdate(st1, l.n)
                   ELSE IF l.n = "R" THEN SetOp(st1, RSig, RVal)
                   ELSE IF l.n = "T" THEN [st1 EXCEPT !.exc = TRUE]
                   ELSE IF l.n = "U" THEN Closure(st1, {h \in st1.hld : h[2] = UTarget})
                   ELSE st1
  IN Body([st EXCEPT !.log = Append(@, Ev("inv", s, l, v, Read(st, s).v, p, act))])

\* mutant of SetOp: the value is stored before the equality policy is asked
SetOp_StoreFirst(st, s, v) ==
  IF st.exc THEN st
  ELSE IF Equal(st.eq[s], st.val[s], v) THEN [st EXCEPT !.val[s] = v]
  ELSE LET st1 == [st EXCEPT !.val[s] = v, !.np = @ + 1] IN
       Notify(st1, s, TRUE, v, 1, st1.np)

\* mutant of SetOp: the equality policy is not asked
SetOp_NoGate(st, s, v) ==
  IF st.exc THEN st
  ELSE LET st1 == [st EXCEPT !.val[s] = v, !.np = @ + 1] IN
       Notify(st1, s, TRUE, v, 1, st1.np)

\* mutant of SetOp: a set made while a notification pass is running stores
\* the value but notifies nobody
SetOp_Quiet(st, s, v) ==
  IF st.exc \/ Equal(st.eq[s], st.val[s], v) THEN st
  ELSE IF st.np > 0 THEN [st EXCEPT !.val[s] = v]
  ELSE LET st1 == [st EXCEPT !.val[s] = v, !.np = @ + 1] IN
       Notify(st1, s, TRUE, v, 1, st1.np)

\* signal.set / linkedSignal.set
SetOp(st, s, v) ==
  IF st.exc \/ Equal(st.eq[s], st.val[s], v) THEN st
  ELSE LET st1 == [st EXCEPT !.val[s] = v, !.np = @ + 1] IN
       Notify(st1, s, TRUE, v, 1, st1.np)

\* mutant of passUpdate: no equality gate, every recompute is stored and notified
passUpdate_NoGate(st, d) ==
  IF SetSize(st.lst[d]) = 0 THEN st
  ELSE LET Publish(st1) == Notify(st1, d, FALSE, 0, 1, st1.np)
           Gate(r) == IF r.st.exc THEN r.st
                      ELSE Publish([r.st EXCEPT !.val[d] = r.v, !.np = @ + 1])
       IN Gate(Compute(st, d))

\* mutant of passUpdate: the listeners are notified but the result is not stored
passUpdate_NoStore(st, d) ==
  IF SetSize(st.lst[d]) = 0 THEN st
  ELSE LET Publish(st1) == Notify(st1, d, FALSE, 0, 1, st1.np)
           Gate(r) == IF r.st.exc \/ Equal(r.st.eq[d], r.st.val[d], r.v) THEN r.st
                      ELSE Publish([r.st EXCEPT !.np = @ + 1])
       IN Gate(Compute(st, d))

\* mutant of passUpdate: the handler ignores the change of the dependency
passUpdate_Idle(st, d) == st

\* mutant of passUpdate: what the computation throws is caught by the handler
passUpdate_Catch(st, d) ==
  IF SetSize(st.lst[d]) = 0 THEN st
  ELSE LET Publish(st1) == Notify(st1, d, FALSE, 0, 1, st1.np)
           Gate(r) == IF r.st.exc THEN [r.st EXCEPT !.exc = FALSE]
                      ELSE IF Equal(r.st.eq[d], r.st.val[d], r.v) THEN r.st
                      ELSE Publish([r.st EXCEPT !.val[d] = r.v, !.np = @ + 1])
       IN Gate(Compute(st, d))

\* passUpdate of computed / linkedSignal: the handler subscribed to the deps
passUpdate(st, d) ==
  IF SetSize(st.lst[d]) = 0 THEN st
  ELSE LET Publish(st1) == Notify(st1, d, FALSE, 0, 1, st1.np)
           Gate(r) == IF r.st.exc \/ Equal(r.st.eq[d], r.st.val[d], r.v) THEN r.st
                      ELSE Publish([r.st EXCEPT !.val[d] = r.v, !.np = @ + 1])
       IN Gate(Compute(st, d))

\* signal.update / linkedSignal.update with fn one of UpdFns
UpdFns == {"same", "next"}
ApplyFn(f, prev) == IF f = "same" THEN prev ELSE (prev + 1) % (MaxVal + 1)
\* mutant of UpdateOp: update stores and notifies by itself, without set
UpdateOp_Direct(st, s, f) == SetOp_NoGate(st, s, ApplyFn(f, st.val[s]))

UpdateOp(st, s, f) == SetOp(st, s, ApplyFn(f, st.val[s]))

\* ------------------------------------------------ subscribe and unsubscribe
RECURSIVE SubscribeOp(_, _, _)
RECURSIVE SubscribeDeps(_, _, _)
RECURSIVE SubscribeDeps_Rescan(_, _, _)

\* mutant of SubscribeDeps: the activation scans the computation again and
\* subscribes to what it reads now
SubscribeDeps_Rescan(st, d, i) ==
  LET Loop(st0) ==
        IF st0.exc \/ i > Len(st0.deps[d]) THEN st0
        ELSE LET c == st0.deps[d][i]
                 Keep(st1) ==
                   IF st1.exc THEN st1
                   ELSE SubscribeDeps_Rescan(
                          [st1 EXCEPT !.cln[d] = Append(@, [s |-> c, l |-> Pass(d)])], d, i + 1)
             IN Keep(SubscribeOp(st0, c, Pass(d)))
      Rescan(sc) == [sc.st EXCEPT !.deps[d] = sc.set]
  IN IF i = 1 THEN Loop(Rescan(scan(st, d))) ELSE Loop(st)

\* for (const caller of _state.deps) { cleanups.add(caller.subscribe(passUpdate)) }
SubscribeDeps(st, d, i) ==
  IF st.exc \/ i > Len(st.deps[d]) THEN st
  ELSE LET c == st.deps[d][i]
           Keep(st1) ==
             IF st1.exc THEN st1
             ELSE SubscribeDeps([st1 EXCEPT !.cln[d] = Append(@, [s |-> c, l |-> Pass(d)])],
                                d, i + 1)
       IN Keep(SubscribeOp(st, c, Pass(d)))

\* mutant of Activate: the cached value is delivered without re-evaluation
Activate_NoRecompute(st, d, l) ==
  LET Deliver(st1) == IF st1.exc THEN st1 ELSE Invoke(st1, d, l, st1.val[d], 0)
  IN Deliver(SubscribeDeps(st, d, 1))

\* the body of `if (_state.listeners.size === 0) {...}` in subscribe
Activate(st, d, l) ==
  LET Deliver(r) == IF r.st.exc THEN r.st
                    ELSE Invoke([r.st EXCEPT !.val[d] = r.v], d, l, r.v, 0)
      Recompute(st1) == IF st1.exc THEN st1 ELSE Deliver(Compute(st1, d))
  IN Recompute(SubscribeDeps(st, d, 1))

\* mutant of SubscribeOp: every subscribe calls the listener with the value held
SubscribeOp_Deliver(st, s, l) ==
  IF s \in Fns THEN [st EXCEPT !.exc = TRUE] ELSE
  LET Add(st1) == IF st1.exc THEN st1 ELSE [st1 EXCEPT !.lst[s] = SetAdd(@, l)]
  IN Add(IF Kind(s) # "signal" /\ SetSize(st.lst[s]) = 0
         THEN Activate(st, s, l) ELSE Invoke(st, s, l, st.val[s], 0))

\* subscribe(listener) of the three kinds of signal; a plain function has
\* no subscribe, the call throws a TypeError
SubscribeOp(st, s, l) ==
  IF s \in Fns THEN [st EXCEPT !.exc = TRUE] ELSE
  LET Add(st1) == IF st1.exc THEN st1 ELSE [st1 EXCEPT !.lst[s] = SetAdd(@, l)]
  IN Add(IF Kind(s) # "signal" /\ SetSize(st.lst[s]) = 0
         THEN Activate(st, s, l) ELSE st)

\* for (const cleanupFn of _state.cleanups) cleanupFn()
RunCleanups(st, d, i) ==
  IF i > Len(st.cln[d]) THEN st
  ELSE RunCleanups(UnsubOp(st, st.cln[d][i].s, st.cln[d][i].l), d, i + 1)

\* mutant of UnsubOp: the last unsubscribe does not run the cleanups
UnsubOp_NoCleanup(st, s, l) == [st EXCEPT !.lst[s] = SetDelete(@, l)]

\* the unsubscribe closure returned by s.subscribe(l)
UnsubOp(st, s, l) ==
  LET Release(st1) ==
        IF Kind(s) = "signal" \/ SetSize(st1.lst[s]) # 0 THEN st1
        ELSE [RunCleanups(st1, s, 1) EXCEPT !.cln[s] = <<>>]
  IN Release([st EXCEPT !.lst[s] = SetDelete(@, l)])

\* ------------------------------------------------------------ construction
\* signal(v0, {equal}) / computed(fn, {equal}) / linkedSignal(arg)
CreateOp(st, s, v0, pol) ==
  IF Kind(s) = "signal" THEN [st EXCEPT !.val[s] = v0, !.eq[s] = pol]
  ELSE IF Kind(s) = "computed" THEN
    LET State(r, sc) ==
          [sc.st EXCEPT !.val[s] = r.v, !.deps[s] = sc.set, !.eq[s] = pol]
        Scan(r) == IF r.st.exc THEN r.st ELSE State(r, scan(r.st, s))
    IN Scan(RunBody(st, s))
  ELSE IF Form(s) = "fn" THEN
    LET State(sc, r) ==
          IF r.st.exc THEN r.st
          ELSE [r.st EXCEPT !.val[s] = r.v, !.deps[s] = sc.set, !.eq[s] = "strict"]
        Eval(sc) == State(sc, Compute(sc.st, s))
    IN Eval(scan(st, s))
  ELSE IF Form(s) = "nil" THEN [st EXCEPT !.exc = TRUE]      \* arg.source (80)
  ELSE IF Form(s) = "nosrc" THEN [st EXCEPT !.exc = TRUE]    \* srcFn() (87)
  ELSE IF Form(s) = "nocomp" THEN                            \* computation(..) (87)
    LET NotAFunction(r) == [r.st EXCEPT !.exc = TRUE]
    IN NotAFunction(Read(st, Args(s)[1]))
  ELSE
    LET State(r) ==
          IF r.st.exc THEN r.st
          ELSE [r.st EXCEPT !.val[s] = r.v, !.deps[s] = <<Args(s)[1]>>, !.eq[s] = pol]
    IN State(Derive(st, s, FALSE))

\* ------------------------------------------------------------------ actions
Range(q) == {q[i] : i \in 1..Len(q)}

\* op: the call; s: its signal; l: the listener (subscribe, unsubscribe);
\* v: the value written (set, update), returned (read) or held (create);
\* f: the function given to update; pv: the value s held before the call;
\* exc: whether the call threw instead of returning
Call(op, s, l, v, f) ==
  [op |-> op, s |-> s, l |-> l, v |-> v, f |-> f,
   pv |-> IF s \in Sig THEN value[s] ELSE 0, exc |-> FALSE]

\* the closures called during a call: the one the caller called, and the
\* one U called if U was invoked
Called(st, call) ==
  (IF call.op \in {"unsubscribe", "again"} THEN {<<call.s, call.l.n>>} ELSE {})
    \cup (IF \E i \in 1..Len(st.log) : st.log[i].t = "inv" /\ st.log[i].l = Ext("U")
          THEN {h \in held : h[2] = UTarget} ELSE {})

\* the state a public call leaves behind once it has returned or thrown
Commit(st, call) ==
  /\ value' = st.val
  /\ listeners' = [s \in Sig |-> Compact(st.lst[s])]
  /\ cleanups' = st.cln
  /\ deps' = st.deps
  /\ equal' = st.eq
  /\ context' = st.ctx
  /\ log' = st.log
  /\ last' = [call EXCEPT !.exc = st.exc]
  /\ spent' = IF plan \in PlansU THEN spent \cup Called(st, call) ELSE spent
  /\ used' = IF plan \in PlansD THEN st.src ELSE used

Start(P) ==
  /\ plan \in P
  /\ created = {}
  /\ equal = [s \in Sig |-> "strict"]
  /\ value = [s \in Sig |-> 0]
  /\ listeners = [s \in Sig |-> <<>>]
  /\ cleanups = [s \in Sig |-> <<>>]
  /\ deps = [s \in Sig |-> <<>>]
  /\ context = <<>>
  /\ held = {}
  /\ spent = {}
  /\ used = [s \in Sig |-> 0]
  /\ log = <<>>
  /\ last = Call("init", "-", NoL, 0, "-")

Init == Start(Plans)

\* const s = signal(v0, {equal}) | computed(...) | linkedSignal(...)
\* (no signal exists if the constructor throws)
Create(s) ==
  /\ s \in plan \ created
  /\ Free(s) \subseteq created \cup Fns
  /\ \E v0 \in (IF Kind(s) = "signal" THEN InitVals ELSE {0}), pol \in Policies(s) :
       LET Return(st) ==
             /\ Commit(st, Call("create", s, NoL, st.val[s], "-"))
             /\ created' = IF st.exc THEN created ELSE created \cup {s}
       IN Return(CreateOp(Pack, s, v0, pol))
  /\ UNCHANGED <<held, plan>>

\* s()
ReadSig(s) ==
  /\ s \in created
  /\ LET Return(r) == Commit(r.st, Call("read", s, NoL, r.v, "-"))
     IN Return(Read(Pack, s))
  /\ UNCHANGED <<created, held, plan>>

\* s.set(v)
Set(s, v) ==
  /\ s \in created
  /\ Kind(s) # "computed"
  /\ Commit(SetOp(Pack, s, v), Call("set", s, NoL, v, "-"))
  /\ UNCHANGED <<created, held, plan>>

\* s.update(fn)
Update(s, f) ==
  /\ s \in created
  /\ Kind(s) # "computed"
  /\ Commit(UpdateOp(Pack, s, f), Call("update", s, NoL, ApplyFn(f, value[s]), f))
  /\ UNCHANGED <<created, held, plan>>

\* the listener functions the callers of a program have
Names ==
  IF plan \in PlansX THEN {"L1", "L2", "T"}
  ELSE IF plan \in PlansU THEN {"L1", "L2", "U"}
  ELSE IF plan \in PlansD THEN {"L1", "L2"}
  ELSE IF plan \in PlansT THEN {"L1"}
  ELSE IF plan \in PlansG THEN {"L1", "L2"}
  ELSE {"L1", "L2", "R"}

\* const unsubscribe = s.subscribe(listener)
\* The callers explored: R needs its target to exist, L2 joins L1 on the
\* signal L1 listens to (programs of Plans), a listener function listens
\* to one signal, at most MaxHeld subscriptions are made and a subscribe
\* that threw during activation is tried again at most MaxRetry times;
\* subscribing again is always allowed.  A subscribe that throws returns
\* no closure.
Subscribe(s, n) ==
  /\ s \in created
  /\ n \in Names
  /\ n = "R" => RSig \in created
  /\ (n = "L2" /\ plan \in Plans) => <<s, "L1">> \in held
  /\ \A h \in held : h[2] = n => h[1] = s
  /\ <<s, n>> \in held \/ Cardinality(held) < MaxHeld
  /\ listeners[s] = <<>> => Len(cleanups[s]) <= MaxRetry * Len(deps[s])
  /\ LET Return(st) ==
           /\ Commit(st, Call("subscribe", s, Ext(n), 0, "-"))
           /\ held' = IF st.exc THEN held ELSE held \cup {<<s, n>>}
     IN Return(SubscribeOp(Pack, s, Ext(n)))
  /\ UNCHANGED <<created, plan>>

\* unsubscribe(), for a closure returned by an earlier s.subscribe(listener)
Unsubscribe(s, n) ==
  /\ <<s, n>> \in held
  /\ Commit(UnsubOp(Pack, s, Ext(n)), Call("unsubscribe", s, Ext(n), 0, "-"))
  /\ UNCHANGED <<created, held, plan>>

\* unsubscribe() once more, for a closure that has been called before
UnsubscribeAgain(s, n) ==
  /\ <<s, n>> \in spent
  /\ Commit(UnsubOp(Pack, s, Ext(n)), Call("again", s, Ext(n), 0, "-"))
  /\ UNCHANGED <<created, held, plan>>

Next ==
  \/ \E s \in Sig : Create(s)
  \/ \E s \in Sig : ReadSig(s)
  \/ \E s \in Sig, v \in Val : Set(s, v)
  \/ \E s \in Sig, f \in UpdFns : Update(s, f)
  \/ \E s \in Sig, n \in ExtNames : Subscribe(s, n)
  \/ \E s \in Sig, n \in ExtNames : Unsubscribe(s, n)

Spec == Init /\ [][Next]_vars

\* The programs of PlansX: a computation that throws and the listener T.
InitX == Start(PlansX)

SpecX == InitX /\ [][Next]_vars

\* The programs of PlansU: the listener U, and callers that call an
\* unsubscribe closure a second time.
InitU == Start(PlansU)

NextU ==
  \/ \E s \in Sig : Create(s)
  \/ \E s \in Sig : ReadSig(s)
  \/ \E s \in Sig, v \in Val : Set(s, v)
  \/ \E s \in Sig, f \in UpdFns : Update(s, f)
  \/ \E s \in Sig, n \in ExtNames : Subscribe(s, n)
  \/ \E s \in Sig, n \in ExtNames : Unsubscribe(s, n)
  \/ \E s \in Sig, n \in ExtNames : UnsubscribeAgain(s, n)

SpecU == InitU /\ [][NextU]_vars

\* The programs of PlansT: branches, partial runs, nested frames.
InitT == Start(PlansT)

SpecT == InitT /\ [][Next]_vars

\* The programs of PlansD: computations given a second argument.
InitD == Start(PlansD)

SpecD == InitD /\ [][Next]_vars

\* The programs of PlansG: a diamond.
InitG == Start(PlansG)

SpecG == InitG /\ [][Next]_vars

TypeOK ==
  /\ created \subseteq plan
  /\ spent \subseteq held
  /\ \A s \in Sig : value[s] \in Val
  /\ context = <<>>

\* ================================================================ properties
\* helpers over the log of a call
Invs(lg) == {i \in 1..Len(lg) : lg[i].t = "inv"}
IsInv(e) == e.t = "inv"
\* the listener calls of notification pass p of signal s, in order
PassOf(lg, s, p) == SelectSeq(lg, LAMBDA e : e.t = "inv" /\ e.s = s /\ e.p = p)
\* what a fresh evaluation of the computation of d returns in the current state
Fresh(d) == Fn(d, [i \in 1..Len(Args(d)) |-> Read(Pack, Args(d)[i]).v])
Derived == {s \in Sig : Kind(s) # "signal"}
\* the calls of linkedSignal whose argument is neither a function nor an
\* object with a signal `source` and a `computation`
Malformed == {s \in Sig : Form(s) \in {"nil", "nosrc", "nocomp"}
                          \/ (Form(s) = "cfg" /\ Args(s)[1] \in Fns)}
Writable == {s \in Sig : Kind(s) # "computed"}

\* ---------------------------------------------------------------------- C1
\* C1: a set(v) on a writable or linked signal whose v the equality policy
\* reports equal to the stored value changes nothing: the stored value, the
\* listener sets and the cleanups stay as they are and no listener runs.
C1_Step ==
  (last'.op = "set" /\ Equal(equal[last'.s], value[last'.s], last'.v))
    => (value' = value /\ listeners' = listeners /\ cleanups' = cleanups /\ log' = <<>>)

C1_EqualSetIsNoop == [][C1_Step]_vars

\* a set was rejected although its value differs from the stored one, on a
\* signal that has listeners
C1_Witness ==
  /\ last.op = "set"
  /\ last.v # value[last.s]
  /\ Equal(equal[last.s], value[last.s], last.v)
  /\ listeners[last.s] # <<>>
  /\ log = <<>>

\* ---------------------------------------------------------------------- C2
\* C2: a set(v) on a writable (or linked) signal with v not equal to the
\* stored value stores v before the first listener runs and then calls every
\* subscribed listener exactly once with v, in subscription order; subscribe
\* on a writable signal appends a new listener behind the subscribed ones,
\* unsubscribe removes one without reordering the others.
C2_Step ==
  (last'.op = "set" /\ ~Equal(equal[last'.s], value[last'.s], last'.v))
    => LET s == last'.s
           own == PassOf(log', s, 1)
       IN /\ Len(own) = Len(listeners[s])
          /\ \A i \in 1..Len(own) : own[i].l = listeners[s][i] /\ own[i].v = last'.v
          /\ IF listeners[s] = <<>> THEN value'[s] = last'.v
             ELSE /\ IsInv(log'[1]) /\ log'[1].s = s /\ log'[1].p = 1
                  /\ log'[1].l = listeners[s][1] /\ log'[1].rd = last'.v

C2_Order ==
  /\ (last'.op = "subscribe" /\ Kind(last'.s) = "signal")
       => listeners'[last'.s] = SetAdd(listeners[last'.s], last'.l)
  /\ (last'.op = "unsubscribe" /\ Kind(last'.s) = "signal")
       => listeners'[last'.s] = SelectSeq(listeners[last'.s], LAMBDA x : x # last'.l)

C2_NotifyInOrder == [][C2_Step /\ C2_Order]_vars

\* a set on a writable signal has called L1 and then L2 with the new value
C2_Witness ==
  /\ last.op = "set" /\ Kind(last.s) = "signal"
  /\ \E i, j \in Invs(log) :
       /\ i < j
       /\ log[i] = Ev("inv", last.s, Ext("L1"), last.v, last.v, 1, FALSE)
       /\ log[j] = Ev("inv", last.s, Ext("L2"), last.v, last.v, 1, FALSE)

\* ---------------------------------------------------------------------- C3
\* C3: whenever a listener of a signal is called with x, a read of that
\* signal at that moment returns x.
C3_ListenerSeesRead == \A i \in Invs(log) : log[i].v = log[i].rd

\* ---------------------------------------------------------------------- C4
\* C4: read() of a computed signal without listeners returns its computation
\* over the current values of its dependencies.
C4_InactiveReadIsFresh ==
  (last.op = "read" /\ Kind(last.s) = "computed" /\ listeners[last.s] = <<>>)
    => last.v = Fresh(last.s)

\* sum was never subscribed to, a was written after construction, and the
\* read returned a + b
C4_Witness ==
  /\ last.op = "read" /\ last.s = "sum"
  /\ \A h \in held : h[1] # "sum"
  /\ value["a"] = MaxVal
  /\ value["b"] = 0
  /\ last.v = MaxVal

\* ---------------------------------------------------------------------- C5
\* C5: in every state in which a computed signal has a listener, read() of it
\* (the cached value) is what a fresh evaluation of its computation returns.
C5_ActiveReadIsFresh ==
  \A d \in created :
    (Kind(d) = "computed" /\ listeners[d] # <<>>) => Read(Pack, d).v = Fresh(d)

\* --------------------------------------------- runs of passUpdate in the log
MaxOf(S) == CHOOSE x \in S : \A y \in S : y <= x
\* number of calls of the user's function one evaluation of d makes
NComp(d) == IF Kind(d) = "linked" /\ Form(d) = "fn" THEN 2 ELSE 1
Comps(lg, d) == {i \in 1..Len(lg) : lg[i].t = "comp" /\ lg[i].s = d}
\* the cached value of an active d just before log entry i: the value last
\* delivered to a listener of d, or the value d had when the call began
CachedAt(lg, d, i, v0) ==
  LET J == {j \in Invs(lg) : j < i /\ lg[j].s = d} IN
  IF J = {} THEN v0[d] ELSE lg[MaxOf(J)].v
\* entry j is the first listener call of a new notification pass of d
NewPassAt(lg, j, d) ==
  /\ j <= Len(lg)
  /\ lg[j].t = "inv" /\ lg[j].s = d /\ lg[j].p > 0
  /\ \A k \in 1..(j - 1) : lg[k].p < lg[j].p
\* Entry i is a call of the passUpdate of d made while d has listeners: the
\* computation runs next; an equal result starts no notification pass of d,
\* another result starts one that calls the listeners L[d] in order, the
\* first one with the result.  exact: every listener of the pass gets the
\* result; otherwise: every listener gets the value d holds when it is called.
HandlerRun(lg, i, d, L, v0, exact) ==
  LET k == NComp(d) IN
  /\ i + k <= Len(lg)
  /\ \A j \in (i + 1)..(i + k) : lg[j].t = "comp" /\ lg[j].s = d
  /\ LET nx == lg[i + k].v
         cur == CachedAt(lg, d, i, v0)
     IN IF Equal(equal[d], cur, nx) THEN ~NewPassAt(lg, i + k + 1, d)
        ELSE /\ NewPassAt(lg, i + k + 1, d)
             /\ lg[i + k + 1].v = nx
             /\ LET own == PassOf(lg, d, lg[i + k + 1].p) IN
                /\ Len(own) = Len(L[d])
                /\ \A m \in 1..Len(own) :
                     /\ own[m].l = L[d][m]
                     /\ IF exact THEN own[m].v = nx ELSE own[m].v = own[m].rd
\* the calls of passUpdate of signals of kind k made while they were active
ActiveRuns(lg, k) ==
  {i \in Invs(lg) : lg[i].l.k = "pass" /\ lg[i].act /\ Kind(lg[i].l.n) = k}

\* ---------------------------------------------------------------------- C6
\* C6 as claimed: each call of the handler of an active computed signal
\* recomputes; an equal result leaves the cache and notifies nobody, another
\* result is stored and every listener is called with that result in
\* subscription order.
C6_Original ==
  [][\A i \in ActiveRuns(log', "computed") :
       HandlerRun(log', i, log'[i].l.n, listeners', value, TRUE)]_vars

\* C6 (amended): as above, but each listener of the pass is called with the
\* value the computed signal holds at the moment of that call (the new
\* result, unless a listener called earlier in the pass wrote to a
\* dependency and so changed it again); the cache only changes together
\* with such a notification.
C6_Step ==
  /\ \A i \in ActiveRuns(log', "computed") :
       HandlerRun(log', i, log'[i].l.n, listeners', value, FALSE)
  /\ \A d \in created :
       (Kind(d) = "computed" /\ listeners'[d] # <<>>)
         => value'[d] = CachedAt(log', d, Len(log') + 1, value)

C6_RecomputeGated == [][C6_Step]_vars

\* a write to a made sum recompute to another value and call L1, then L2
C6_Witness ==
  /\ last.op = "set" /\ last.s = "a"
  /\ listeners["sum"] = <<Ext("L1"), Ext("L2")>>
  /\ \E i \in ActiveRuns(log, "computed") :
       /\ i + 3 = Len(log)
       /\ log[i + 1].t = "comp" /\ log[i + 1].s = "sum"
       /\ log[i + 2].l = Ext("L1") /\ log[i + 2].v = log[i + 1].v
       /\ log[i + 3].l = Ext("L2") /\ log[i + 3].v = log[i + 1].v
       /\ value["sum"] = log[i + 1].v

\* ---------------------------------------------------------------------- C7
\* C7: once set/update has stored an override v (v differs from the value
\* held before) in a linked signal, a following read, subscribe or
\* unsubscribe during which no dependency changes leaves v in place, and
\* read() returns v, with or without listeners.
C7_Step ==
  \A d \in created :
    (/\ Kind(d) = "linked"
     /\ last.op \in {"set", "update"} /\ last.s = d
     /\ last.pv # last.v /\ value[d] = last.v
     /\ last'.op \in {"read", "subscribe", "unsubscribe"}
     /\ \A x \in Range(deps[d]) : value'[x] = value[x])
      => /\ value'[d] = value[d]
         /\ (last'.op = "read" /\ last'.s = d) => last'.v = value[d]

C7_OverridePersists == [][C7_Step]_vars

\* ---------------------------------------------------------------------- C8
\* C8 as claimed: a linked signal holds an override (the last call was a set
\* of it and the value differs from the computation's result); a write then
\* changes a dependency: afterwards read() returns the computation's result
\* for the new source value, and if the linked signal has listeners one of
\* them was called with that value during the write.
C8_OrigStep ==
  \A d \in created :
    (/\ Kind(d) = "linked"
     /\ last.op \in {"set", "update"} /\ last.s = d
     /\ last.pv # last.v /\ value[d] = last.v
     /\ value[d] # Fresh(d)
     /\ last'.op \in {"set", "update"} /\ last'.s \in Range(deps[d])
     /\ value'[last'.s] # value[last'.s])
      => /\ Read(Pack, d).v' = Fresh(d)'
         /\ listeners[d] # <<>> =>
              \E i \in Invs(log') : log'[i].s = d /\ log'[i].v = Fresh(d)'

C8_Original == [][C8_OrigStep]_vars

\* C8 (amended): each call of the handler of a linked signal with listeners
\* re-derives the value from the new source value; a result not equal (per
\* the linked signal's policy) to the held value replaces it, override or
\* not, and all listeners are called with the value then held, in
\* subscription order; an equal result keeps the held value and notifies
\* nobody.  read() of a linked signal without listeners returns the
\* computation's result.
C8_Step ==
  /\ \A i \in ActiveRuns(log', "linked") :
       HandlerRun(log', i, log'[i].l.n, listeners', value, FALSE)
  /\ \A d \in created :
       (Kind(d) = "linked" /\ listeners'[d] # <<>> /\ ~(last'.op \in {"set", "update"} /\ last'.s = d))
         => value'[d] = CachedAt(log', d, Len(log') + 1, value)
  /\ (last'.op = "read" /\ Kind(last'.s) = "linked" /\ listeners[last'.s] = <<>>)
       => last'.v = Fresh(last'.s)

C8_OverrideDiscarded == [][C8_Step]_vars

\* lk held an override (a value its computation does not give for the old
\* value of a), a write to a changed the source, the re-derived value
\* replaced the override and L1 was called with it
C8_Witness ==
  /\ last.op = "set" /\ last.s = "a"
  /\ listeners["lk"] = <<Ext("L1")>>
  /\ \E i \in ActiveRuns(log, "linked") :
       /\ i + 3 = Len(log)
       /\ log[i + 1].t = "comp" /\ log[i + 1].s = "lk"
       /\ log[i + 1].rd # Fn("lk", <<last.pv>>)
       /\ log[i + 1].rd # Fresh("lk")
       /\ log[i + 3] = Ev("inv", "lk", Ext("L1"), Fresh("lk"), Fresh("lk"), 2, FALSE)
  /\ value["lk"] = Fresh("lk")

\* ---------------------------------------------------------------------- C9
\* C9: a derived signal without listeners has no handler left in the
\* listener set of any signal and no cleanup recorded, and a set/update
\* calls only listeners that are subscribed when the call begins.
C9_Released ==
  \A d \in created \cap Derived :
    listeners[d] = <<>> =>
      /\ cleanups[d] = <<>>
      /\ \A x \in Sig : ~SetHas(listeners[x], Pass(d))

C9_Step ==
  last'.op \in {"set", "update"} =>
    \A i \in Invs(log') : SetHas(listeners[log'[i].s], log'[i].l)

C9_UnsubscribeReleases == []C9_Released /\ [][C9_Step]_vars

\* dbl was subscribed and unsubscribed again: neither dbl nor inc, which it
\* had activated, keeps a handler in its dependency
C9_Witness ==
  /\ last.op = "unsubscribe" /\ last.s = "dbl"
  /\ <<"dbl", "L1">> \in held
  /\ listeners["dbl"] = <<>> /\ listeners["inc"] = <<>> /\ listeners["a"] = <<>>

\* --------------------------------------------------------------------- C10
\* C10: subscribe(l) on a derived signal without listeners subscribes its
\* handler to every dependency and records one cleanup per dependency,
\* re-evaluates the computation, stores the result and calls l exactly once,
\* with that result, before l joins the listener set.
C10_Step ==
  (last'.op = "subscribe" /\ Kind(last'.s) # "signal" /\ listeners[last'.s] = <<>>)
    => LET d == last'.s
           C == Comps(log', d)
           D == {i \in Invs(log') : log'[i].s = d /\ log'[i].l = last'.l}
       IN /\ \A x \in Range(deps[d]) : SetHas(listeners'[x], Pass(d))
          /\ cleanups'[d] = [i \in 1..Len(deps[d]) |-> [s |-> deps[d][i], l |-> Pass(d)]]
          /\ Cardinality(C) = NComp(d)
          /\ value'[d] = log'[MaxOf(C)].v
          /\ Cardinality(D) = 1
          /\ \A i \in D : i > MaxOf(C) /\ log'[i].v = log'[MaxOf(C)].v /\ log'[i].p = 0
          /\ listeners'[d] = <<last'.l>>

C10_FirstSubscribeActivates == [][C10_Step]_vars

\* the first subscribe on sum, after a was written: sum is subscribed to a
\* and b and L1 has received a + b
C10_Witness ==
  /\ last.op = "subscribe" /\ last.s = "sum" /\ last.l = Ext("L1")
  /\ Len(log) = 2
  /\ log[1].t = "comp" /\ log[1].s = "sum" /\ log[1].v = MaxVal
  /\ log[2] = Ev("inv", "sum", Ext("L1"), MaxVal, MaxVal, 0, FALSE)
  /\ listeners["a"] = <<Pass("sum")>> /\ listeners["b"] = <<Pass("sum")>>
  /\ Len(cleanups["sum"]) = 2
  /\ value["a"] = MaxVal /\ value["b"] = 0

\* --------------------------------------------------------------------- C11
\* the number of calls of listener l of signal s recorded in the log
Calls(lg, s, l) == Cardinality({i \in Invs(lg) : lg[i].s = s /\ lg[i].l = l})
\* the call was s.set(v) and the call before it was s.set(v) too
SamePair == last.op = "set" /\ last'.op = "set" /\ last'.s = last.s /\ last'.v = last.v

\* C11 as claimed: two consecutive calls s.set(v); s.set(v) call each
\* listener of s at most once in total.
C11_OrigStep ==
  SamePair => \A l \in Range(listeners[last.s]) :
                Calls(log, last.s, l) + Calls(log', last.s, l) <= 1

C11_Step ==
  /\ (last'.op \in {"set", "update"} /\ Equal(equal[last'.s], value[last'.s], last'.v))
       => log' = <<>>
  /\ (SamePair /\ \A i \in Invs(log) : log[i].s = last.s => log[i].p = 1)
       => /\ log' = <<>>
          /\ value' = value
          /\ \A l \in Range(listeners[last.s]) :
               Calls(log, last.s, l) + Calls(log', last.s, l) <= 1

C12_Step ==
  (last'.op \in {"set", "update"} /\ last'.s \in Writable) =>
    IF Equal(equal[last'.s], value[last'.s], last'.v)
    THEN \A d \in Derived : Comps(log', d) = {}
    ELSE \A d \in created \cap Derived :
           (SetHas(deps[d], last'.s) /\ listeners[d] # <<>>)
             => Cardinality(Comps(log', d)) >= NComp(d)

C12_EqualWriteComputesNothing == [][C12_Step]_vars

\* a.update(x => x) while inc had a listener and dbl, also created, had none:
\* no computation ran
C12_Witness ==
  /\ last.op = "update" /\ last.s = "a" /\ last.f = "same"
  /\ {"inc", "dbl"} \subseteq created
  /\ listeners["inc"] # <<>> /\ listeners["dbl"] = <<>>
  /\ SetHas(listeners["a"], Pass("inc"))
  /\ log = <<>>

\* --------------------------------------------------------------------- C13
\* the position of x in the list q (x occurs in q)
PosOf(q, x) == CHOOSE i \in 1..Len(q) : q[i] = x

\* C13: a set/update that stores v in a writable signal one of whose
\* listeners throws ends with the exception at its caller; v is stored; the
\* listeners before the failing one have been called with v, in order, the
\* failing one is the last listener called and those behind it are not
\* called; a following set(v) of the same v returns normally, changes
\* nothing and calls nobody.
C13_Step ==
  /\ (/\ last'.op \in {"set", "update"} /\ last'.s \in Writable
      /\ ~Equal(equal[last'.s], value[last'.s], last'.v)
      /\ SetHas(listeners[last'.s], Ext("T")))
       => LET s == last'.s
              k == PosOf(listeners[s], Ext("T"))
              own == PassOf(log', s, 1)
          IN /\ last'.exc
             /\ value'[s] = last'.v
             /\ listeners' = listeners
             /\ Len(own) \in 1..k
             /\ \A i \in 1..Len(own) : own[i].l = listeners[s][i] /\ own[i].v = last'.v
             /\ Len(own) < k => (own[Len(own)].l.k = "pass" /\ log'[Len(log')].t = "throw")
             /\ Len(own) = k => log'[Len(log')] = own[k]
  /\ (SamePair /\ last.exc)
       => (log' = <<>> /\ ~last'.exc /\ value' = value /\ listeners' = listeners)

C13_ThrowingListenerStopsPass == [][C13_Step]_vars

\* a.set(v) with listeners [T, L1]: T was called with v and threw, L1 was not
\* called, a holds v
C13_Witness ==
  /\ last.op = "set" /\ last.s = "a" /\ last.exc
  /\ listeners["a"] = <<Ext("T"), Ext("L1")>>
  /\ log = <<Ev("inv", "a", Ext("T"), last.v, last.v, 1, FALSE)>>
  /\ value["a"] = last.v /\ last.v # last.pv

\* --------------------------------------------------------------------- C14
\* the computation of d throws when it runs over the values the signals
\* hold in val
ThrowsOn(d, val) == Throws(d, [i \in 1..Len(Args(d)) |-> val[Args(d)[i]]])

\* C14: a set/update changes a dependency s of a derived signal d that has
\* listeners, the handler of d is reached (no listener of s before it
\* throws) and the computation of d throws: the exception reaches the caller
\* of set; s holds the new value; the cached value, the listeners and the
\* cleanups of d are as before and no listener of d is called; the handler
\* of d is the last listener of s called and the throw ends the call.
C14_Step ==
  \A d \in created \cap Derived :
    (/\ last'.op \in {"set", "update"} /\ SetHas(deps[d], last'.s)
     /\ ~Equal(equal[last'.s], value[last'.s], last'.v)
     /\ listeners[d] # <<>>
     /\ SetHas(listeners[last'.s], Pass(d))
     /\ \A i \in 1..PosOf(listeners[last'.s], Pass(d)) : listeners[last'.s][i] # Ext("T")
     /\ ThrowsOn(d, [value EXCEPT ![last'.s] = last'.v]))
      => LET s == last'.s
             k == PosOf(listeners[s], Pass(d))
             own == PassOf(log', s, 1)
         IN /\ last'.exc
            /\ value'[s] = last'.v
            /\ value'[d] = value[d]
            /\ listeners' = listeners /\ cleanups' = cleanups
            /\ \A i \in Invs(log') : log'[i].s # d
            /\ Len(own) = k
            /\ \A i \in 1..k : own[i].l = listeners[s][i]
            /\ log'[Len(log')].t = "throw" /\ log'[Len(log')].s = d
            /\ log'[Len(log') - 1] = own[k]

C14_ThrowingRecomputePropagates == [][C14_Step]_vars

\* a.set(MaxVal) with listeners [handler of thr, L2] while L1 listens to thr:
\* the handler ran, the computation threw, neither L1 nor L2 was called, a
\* holds MaxVal and thr its old value
C14_Witness ==
  /\ last.op = "set" /\ last.s = "a" /\ last.v = MaxVal /\ last.exc
  /\ listeners["a"] = <<Pass("thr"), Ext("L2")>>
  /\ listeners["thr"] = <<Ext("L1")>>
  /\ Len(log) = 2
  /\ log[1] = Ev("inv", "a", Pass("thr"), MaxVal, MaxVal, 1, TRUE)
  /\ log[2].t = "throw" /\ log[2].s = "thr"
  /\ value["a"] = MaxVal /\ value["thr"] = last.pv /\ last.pv # MaxVal

\* --------------------------------------------------------------------- C15
\* the computation of d threw during the call logged in lg
Threw(lg, d) == \E i \in 1..Len(lg) : lg[i].t = "throw" /\ lg[i].s = d

\* C15: when the computation of a derived signal throws during its
\* construction or during the subscribe that activates it, the call returns
\* normally: a constructor call leaves the signal constructed, with the
\* signals read before the throw as its dependencies, and a subscribe leaves
\* the listener subscribed.
C15_ThrowIsSwallowed ==
  (last.op \in {"create", "subscribe"} /\ Threw(log, last.s))
    => /\ ~last.exc
       /\ last.op = "create" => (last.s \in created /\ deps[last.s] = Args(last.s))
       /\ last.op = "subscribe" => SetHas(listeners[last.s], last.l)

\* --------------------------------------------------------------------- C16
\* the notification passes of signal s started during the call logged in lg
PassesOf(lg, s) == {lg[i].p : i \in {j \in Invs(lg) : lg[j].s = s /\ lg[j].p > 0}}

\* no listener set holds an element twice
C16_Single ==
  \A s \in Sig : \A i, j \in 1..Len(listeners[s]) :
    listeners[s][i] = listeners[s][j] => i = j

\* C16: subscribe(l) on a signal whose listener set holds l leaves the set,
\* and so the position of l, as it is, computes nothing and calls nobody;
\* every notification pass a later set/update starts calls l once; one call
\* of an unsubscribe closure of l removes l, however often l was subscribed.
C16_Step ==
  /\ (last'.op = "subscribe" /\ SetHas(listeners[last'.s], last'.l))
       => (listeners' = listeners /\ cleanups' = cleanups /\ value' = value /\ log' = <<>>)
  /\ last'.op \in {"set", "update"}
       => \A s \in Sig : \A p \in PassesOf(log', s) : \A l \in Range(listeners[s]) :
            Cardinality({i \in Invs(log') : log'[i].s = s /\ log'[i].p = p /\ log'[i].l = l}) = 1
  /\ last'.op = "unsubscribe" => ~SetHas(listeners'[last'.s], last'.l)

C16_SubscribeTwiceIsOnce == []C16_Single /\ [][C16_Step]_vars

\* L1 was subscribed to a again while [L1, L2] were listening: it kept its
\* place before L2
C16_Witness ==
  /\ last.op = "subscribe" /\ last.s = "a" /\ last.l = Ext("L1")
  /\ listeners["a"] = <<Ext("L1"), Ext("L2")>>
  /\ log = <<>>

\* --------------------------------------------------------------------- C17
\* C17: calling an unsubscribe closure that has been called before changes
\* neither the listener sets nor the dependency subscriptions (the cleanups
\* of the derived signals and their handlers in the listener sets), also
\* when the listener has been subscribed again since the first call.
C17_Step ==
  last'.op = "again" => (listeners' = listeners /\ cleanups' = cleanups)

C17_UnsubscribeIdempotent == [][C17_Step]_vars

\* --------------------------------------------------------------------- C18
\* the calls of unsubscribe closures made by listeners during the call
Unsubs(lg) == {i \in 1..Len(lg) : lg[i].t = "unsub"}

\* C18: a listener is called only if it is in the listener set when the
\* call begins or is the listener being subscribed; once an unsubscribe
\* closure of l has returned, l is not in the listener set and is not called
\* again by that call, also when the closure was called by a listener
\* earlier in the notification pass that would have reached l; and the
\* handler of a derived signal that lost its last listener this way is not
\* called either.
C18_Step ==
  /\ \A i \in Invs(log') :
       \/ SetHas(listeners[log'[i].s], log'[i].l)
       \/ /\ last'.op = "subscribe" /\ log'[i].s = last'.s /\ log'[i].l = last'.l
          /\ log'[i].p = 0
       \/ log'[i].l.k = "pass" /\ last'.op = "subscribe" /\ last'.s = log'[i].l.n
  /\ last'.op \in {"unsubscribe", "again"}
       => (~SetHas(listeners'[last'.s], last'.l) /\ Invs(log') = {})
  /\ \A i \in Unsubs(log') :
       /\ \A j \in Invs(log') :
            j > i => /\ ~(log'[j].s = log'[i].s /\ log'[j].l = log'[i].l)
                     /\ log'[j].l = Pass(log'[i].s) => listeners'[log'[i].s] # <<>>
       /\ last'.op # "subscribe" => ~SetHas(listeners'[log'[i].s], log'[i].l)

C18_UnsubscribeIsImmediate == [][C18_Step]_vars

\* a.set(v) with listeners [U, L2]: U was called and called L2's unsubscribe
\* closure while L2 was still to be called in this pass; L2 was not called
C18_Witness ==
  /\ last.op = "set" /\ last.s = "a" /\ ~last.exc
  /\ Len(log) = 2
  /\ log[1] = Ev("inv", "a", Ext("U"), last.v, last.v, 1, FALSE)
  /\ log[2] = Ev("unsub", "a", Ext("L2"), 0, 0, 0, TRUE)
  /\ listeners["a"] = <<Ext("U")>>

\* --------------------------------------------------------------------- C19
\* entries i and j of the log are listener calls of the same pass
SamePass(lg, i, j) == lg[i].s = lg[j].s /\ lg[i].p = lg[j].p

\* C19: (1) between two listener calls of one notification pass lie only
\* complete passes: a pass begun after listener i was called has ended
\* before the next listener of i's pass is called; (2) in particular the
\* pass of a derived signal d that the handler of d starts is over before the
\* listener behind the handler is called; (3) when a set/update that changed
\* s has returned, every derived signal with listeners that depends on s
\* holds what its computation gives (up to its equality policy).
C19_Step ==
  /\ \A i, j \in Invs(log') :
       (i < j /\ SamePass(log', i, j)) =>
         \A k \in Invs(log') :
           (i < k /\ k < j /\ ~SamePass(log', i, k)) =>
             \A m \in Invs(log') : SamePass(log', k, m) => (i < m /\ m < j)
  /\ \A i \in ActiveRuns(log', "computed") \cup ActiveRuns(log', "linked") :
       LET d == log'[i].l.n
           k == i + NComp(d) + 1
       IN NewPassAt(log', k, d) =>
            \A j \in Invs(log') :
              (i < j /\ SamePass(log', i, j)) =>
                \A m \in Invs(log') : SamePass(log', k, m) => m < j
  /\ (/\ last'.op \in {"set", "update"} /\ last'.s \in Writable
      /\ ~Equal(equal[last'.s], value[last'.s], last'.v))
       => \A d \in created \cap Derived :
            (SetHas(deps[d], last'.s) /\ listeners'[d] # <<>>)
              => Equal(equal[d], value'[d], Fresh(d)')

C19_DepthFirst == [][C19_Step]_vars

\* a.set(v) with a's listeners [handler of inc, handler of dbl, R] (dbl read
\* a through inc when its dependencies were scanned), inc's [handler of dbl]
\* and dbl's [L1]: the handler of inc ran, inc changed and called the handler
\* of dbl, dbl changed and called L1; only then a's next listener, the
\* handler of dbl, was called, and then R
C19_Witness ==
  /\ last.op = "set" /\ last.s = "a"
  /\ listeners["a"] = <<Pass("inc"), Pass("dbl"), Ext("R")>>
  /\ listeners["inc"] = <<Pass("dbl")>>
  /\ listeners["dbl"] = <<Ext("L1")>>
  /\ Len(log) >= 8
  /\ log[1].t = "inv" /\ log[1].s = "a" /\ log[1].l = Pass("inc") /\ log[1].p = 1
  /\ log[2].t = "comp" /\ log[2].s = "inc"
  /\ log[3].t = "inv" /\ log[3].s = "inc" /\ log[3].l = Pass("dbl") /\ log[3].v = log[2].v
  /\ log[4].t = "comp" /\ log[4].s = "dbl"
  /\ log[5].t = "inv" /\ log[5].s = "dbl" /\ log[5].l = Ext("L1") /\ log[5].v = log[4].v
  /\ log[6].t = "inv" /\ log[6].s = "a" /\ log[6].l = Pass("dbl") /\ log[6].p = 1
  /\ log[7].t = "comp" /\ log[7].s = "dbl" /\ log[7].v = log[4].v
  /\ log[8].t = "inv" /\ log[8].s = "a" /\ log[8].l = Ext("R") /\ log[8].p = 1

\* --------------------------------------------------------------------- C20
\* the calls of the listener R, which calls RSig.set(RVal), in the log
RCalls(lg) == {i \in Invs(lg) : lg[i].l = Ext("R")}
\* the value RSig holds when log entry i is made, RSig having listeners: the
\* value of the pass of RSig begun last, or the value from before the call
HeldAt(lg, i, v0) ==
  LET J == {j \in Invs(lg) : j <= i /\ lg[j].s = RSig /\ lg[j].p > 0} IN
  IF J = {} THEN v0[RSig]
  ELSE lg[CHOOSE j \in J : \A m \in J : lg[m].p <= lg[j].p].v

\* C20: each time R is called, on a listener of RSig or of another signal,
\* its RSig.set(RVal) runs at once: a value equal to the held one starts no
\* pass; otherwise RVal is stored before the first listener of RSig is
\* called, the listeners of RSig are called with RVal, each once, in order,
\* and all of them before the pass that called R goes on; RSig holds RVal
\* when the call returns; and every pass begun during a call, interrupted
\* or not, calls each listener of its signal exactly once, in order.
C20_Step ==
  /\ \A i \in RCalls(log') :
       /\ value'[RSig] = RVal
       /\ listeners'[RSig] # <<>> =>
            IF Equal(equal[RSig], HeldAt(log', i, value), RVal)
            THEN ~NewPassAt(log', i + 1, RSig)
            ELSE /\ NewPassAt(log', i + 1, RSig)
                 /\ log'[i + 1].v = RVal /\ log'[i + 1].rd = RVal
                 /\ \A m \in Invs(log') :
                      SamePass(log', i + 1, m) =>
                        /\ log'[m].v = RVal
                        /\ \A j \in Invs(log') : (i < j /\ SamePass(log', i, j)) => m < j
  /\ \A s \in Sig : \A p \in PassesOf(log', s) :
       LET own == PassOf(log', s, p) IN
       /\ Len(own) = Len(listeners'[s])
       /\ \A m \in 1..Len(own) : own[m].l = listeners'[s][m]

C20_NestedSetRunsAtOnce == [][C20_Step]_vars

\* a.set(v) with listeners [R, L1]: R was called with v and wrote RVal; R and
\* L1 were called with RVal; then the first pass went on and called L1 with v
C20_Witness ==
  /\ last.op = "set" /\ last.s = "a" /\ last.v # RVal /\ last.pv # RVal
  /\ listeners["a"] = <<Ext("R"), Ext("L1")>>
  /\ log = <<Ev("inv", "a", Ext("R"), last.v, last.v, 1, FALSE),
             Ev("inv", "a", Ext("R"), RVal, RVal, 2, FALSE),
             Ev("inv", "a", Ext("L1"), RVal, RVal, 2, FALSE),
             Ev("inv", "a", Ext("L1"), last.v, RVal, 1, FALSE)>>
  /\ value["a"] = RVal

\* ---------------------------------------------------------------------- C21
\* the arguments the last evaluation of the computation of d before entry i
\* of the log lg was given, as <<source, value of d after it>>: an earlier
\* evaluation of the same call, or the one an earlier call made
PrevEval(lg, d, i) ==
  LET J == {j \in Comps(lg, d) : j < i}
  IN IF J = {} THEN <<used[d], value[d]>> ELSE <<lg[MaxOf(J)].src, lg[i].rd>>

\* C21: every evaluation of the computation of a linked signal made from
\* {source, computation} after construction is the call computation(s, prev)
\* with s the current value of the source, prev.prevValue the value the
\* linked signal held just before, and prev.source the source value the
\* previous evaluation was given; the evaluation made by the constructor is
\* given no prev.
C21_Step ==
  \A d \in {s \in Derived \ Malformed : Kind(s) = "linked" /\ Form(s) = "cfg"} :
    \A i \in Comps(log', d) :
      /\ log'[i].src = Read(Pack, Args(d)[1]).v'
      /\ IF last'.op = "create" THEN log'[i].prev = <<>>
         ELSE log'[i].prev = PrevEval(log', d, i)

C21_PrevCarriesLastSource == [][C21_Step]_vars

\* ---------------------------------------------------------------------- C22
\* what s.set(v) does to the state before the step: the values it leaves and
\* the listener calls it makes
SetRef(s, v) ==
  LET Effect(st) == [val |-> st.val, calls |-> SelectSeq(st.log, IsInv)]
  IN Effect(SetOp(Pack, s, v))

\* C22: on a writable signal, update(fn) leaves the stored values and makes
\* the listener calls that set(fn(c)) makes, c being what a read returns when
\* update is called; update(prev => prev) calls no listener.
C22_Step ==
  (last'.op = "update" /\ Kind(last'.s) = "signal") =>
    /\ [val |-> value', calls |-> SelectSeq(log', IsInv)]
         = SetRef(last'.s, ApplyFn(last'.f, Read(Pack, last'.s).v))
    /\ last'.f = "same" => log' = <<>>

C22_UpdateIsSetOfFn == [][C22_Step]_vars

\* an update(prev => next) of a signal has stored the next value and at
\* least two listener calls were made
C22_Witness ==
  /\ last.op = "update" /\ Kind(last.s) = "signal" /\ last.f = "next"
  /\ Cardinality(Invs(log)) >= 2
  /\ value[last.s] = ApplyFn("next", last.pv)

\* ---------------------------------------------------------------------- C23
\* C23: a call of linkedSignal whose argument is neither a computation
\* function nor an object with a signal `source` and a `computation` function
\* throws and yields no signal; no linked signal made from such an argument
\* exists whose read or subscribe throws later.
C23_MalformedIsRejected ==
  /\ created \cap Malformed = {}
  /\ (last.op = "create" /\ last.s \in Malformed) => last.exc
  /\ (last.op \in {"read", "subscribe"} /\ last.exc) => last.s \notin Malformed

\* ---------------------------------------------------------------------- C24
\* the runs of the computation of d in the log lg, returned or thrown
RunsOf(lg, d) == {i \in 1..Len(lg) : lg[i].t \in {"comp", "throw"} /\ lg[i].s = d}

\* C24: a read of a computed signal that has a listener returns the cached
\* value and runs no computation; a read of a computed signal without
\* listeners runs its computation exactly once; neither calls a listener.
C24_Step ==
  (last'.op = "read" /\ Kind(last'.s) = "computed") =>
    /\ Invs(log') = {}
    /\ listeners[last'.s] # <<>> =>
         /\ log' = <<>>
         /\ last'.v = value[last'.s]
         /\ value' = value
    /\ listeners[last'.s] = <<>> => Cardinality(RunsOf(log', last'.s)) = 1

C24_ReadRunsAtMostOnce == [][C24_Step]_vars

\* a computed signal over another computed signal was read with a listener
\* on it, and nothing ran
C24_Witness ==
  /\ last.op = "read" /\ last.s = "dbl"
  /\ listeners["dbl"] # <<>>
  /\ log = <<>>
  /\ last.v = value["dbl"]

\* ---------------------------------------------------------------------- C25
\* C25: between calls, a derived signal without listeners has an empty
\* cleanup set and one with listeners has exactly one cleanup per signal of
\* its dependency set; its handler is in the listener set of a dependency
\* exactly when it has a listener.  This also after a first subscribe whose
\* listener or computation threw.
C25_CleanupsMatchListeners ==
  \A d \in created \cap Derived :
    /\ listeners[d] = <<>> => cleanups[d] = <<>>
    /\ listeners[d] # <<>> =>
         /\ Len(cleanups[d]) = Len(deps[d])
         /\ \A i \in 1..Len(deps[d]) : cleanups[d][i] = [s |-> deps[d][i], l |-> Pass(d)]
    /\ \A x \in Range(deps[d]) : SetHas(listeners[x], Pass(d)) <=> listeners[d] # <<>>

\* ---------------------------------------------------------------------- C26
\* C26: the dependency set of a derived signal holds only the signals its
\* own computation reads; the signals read by the computation of a derived
\* signal it reads are not in it (dbl, computed over inc, gets {inc}).
C26_OnlyDirectReads ==
  \A d \in created \cap Derived : Range(deps[d]) \subseteq Range(Args(d))

\* ---------------------------------------------------------------------- C27
\* the scans recorded in the log lg
Scans(lg) == {i \in 1..Len(lg) : lg[i].t = "scan"}

\* the signals one run of the computation of d reads in the current state,
\* vs being the values it has read so far: its own reads, the reads of the
\* computations that run because it reads a derived signal without
\* listeners, and the reads of the evaluations made by the constructors it
\* calls (a scan made by such a constructor has a frame of its own)
RECURSIVE ReadBy(_, _)
ReadBy(d, vs) ==
  LET Made == IF vs # <<>> THEN {}
              ELSE UNION {ReadBy(Makes(d)[i], <<>>) : i \in 1..Len(Makes(d))}
      Stops == vs = <<>> /\ \E i \in 1..Len(Makes(d)) : ThrowsOn(Makes(d)[i], value)
      Below(x) == IF Kind(x) # "signal" /\ listeners[x] = <<>> THEN ReadBy(x, <<>>) ELSE {}
      Own(x) == IF x = "-" \/ Stops THEN {}
                ELSE {x} \cup Below(x) \cup ReadBy(d, Append(vs, Read(Pack, x).v))
  IN Made \cup Own(NextRead(d, vs))

\* C27: scan(computation) runs the computation once, returns the signals
\* read until the computation returned or threw, lets no exception out and
\* leaves the frame stack as it found it (empty after an outermost scan),
\* also when the computation threw.
C27_ScanSwallows ==
  /\ context = <<>>
  /\ \A i \in Scans(log) :
       /\ Cardinality({j \in RunsOf(log, log[i].s) : log[i].from < j /\ j < i}) = 1
       /\ Range(log[i].set) = ReadBy(log[i].s, <<>>)
       /\ log[i].after = log[i].before
       /\ log[i].act => i < Len(log) /\ log[i + 1].t \in {"comp", "throw", "scan"}

\* the constructor of thp ran scan with a computation that read a and threw
\* before reading inc: scan returned {a}, the constructor went on and threw
C27_Witness ==
  /\ last.op = "create" /\ last.s = "thp" /\ last.exc
  /\ \E i \in Scans(log) : /\ log[i].s = "thp" /\ log[i].act
                           /\ log[i].set = <<"a">>
                           /\ log[i].before = <<>> /\ log[i].after = <<>>
                           /\ log[i - 1].t = "throw"
  /\ context = <<>>

\* ---------------------------------------------------------------------- C28
\* C28: a read registers the signal in the top frame only: a scan that runs
\* inside another scan collects the signals read during it in its own set
\* and leaves the sets of the frames below as they were; a read made while
\* no frame is open changes no frame and no dependency set.
C28_Step ==
  /\ \A i \in Scans(log') :
       log'[i].before # <<>> =>
         /\ log'[i].after = log'[i].before
         /\ Range(log'[i].set) = ReadBy(log'[i].s, <<>>)
         /\ \E j \in Scans(log') : j > i /\ log'[j].from <= log'[i].from
                                         /\ Len(log'[j].before) < Len(log'[i].before)
  /\ last'.op = "read" =>
       /\ context' = context
       /\ deps' = deps

C28_FramesNest == [][C28_Step]_vars

\* the constructor of out scanned a computation that constructs inr: the
\* scan of inr ran with out's frame below it, collected a, and out's frame,
\* empty until then, was still empty when it returned
C28_Witness ==
  /\ last.op = "create" /\ last.s = "out" /\ ~last.exc
  /\ \E i, j \in Scans(log) :
       /\ i < j
       /\ log[i].s = "inr" /\ log[i].before = << <<>> >> /\ log[i].after = << <<>> >>
       /\ log[i].set = <<"a">>
       /\ log[j].s = "out" /\ log[j].before = <<>> /\ log[j].from <= log[i].from
       /\ log[j].set = <<"a">>

\* ---------------------------------------------------------------------- C29
\* the signals whose listener set holds the handler of d
SubscribedTo(d) == {x \in Sig : SetHas(listeners[x], Pass(d))}

\* C29: a subscribe that takes a derived signal from no listener to one
\* leaves its handler subscribed to exactly the signals its computation
\* reads in the evaluation made by that subscribe; a later write to one of
\* these signals brings the cached value up to date.
C29_Step ==
  /\ \A d \in created \cap Derived :
       (last'.op = "subscribe" /\ ~last'.exc /\ last'.s = d /\ listeners[d] = <<>>)
         => SubscribedTo(d)' = ReadBy(d, <<>>)'
  /\ \A d \in created \cap Derived :
       (last'.op \in {"set", "update"} /\ ~last'.exc /\ listeners[d] # <<>>
          /\ last'.s \in ReadBy(d, <<>>)' /\ value'[last'.s] # value[last'.s])
         => value'[d] = Fn(d, ReadArgs(Pack, d, <<>>).vs)'

C29_ActivationTracksBranch == [][C29_Step]_vars

\* ---------------------------------------------------------------------- C30
\* C30: once a derived signal is constructed no call adds a signal to its
\* dependency set or removes one from it, and each subscribe that gives it
\* its first listener, the first time and after every deactivation,
\* subscribes its handler to the signals of that set (which stay subscribed
\* unless the listener itself calls an unsubscribe closure meanwhile).
C30_Step ==
  \A d \in created \cap Derived :
    /\ deps'[d] = deps[d]
    /\ (last'.op = "subscribe" /\ ~last'.exc /\ last'.s = d /\ listeners[d] = <<>>
          /\ Unsubs(log') = {})
         => SubscribedTo(d)' = Range(deps[d])

C30_DepsAreFixed == [][C30_Step]_vars

\* br, constructed while f was 0, is given its first listener while f is
\* non-zero and a differs from b: the computation now reads f and a, the
\* handler is subscribed to f and b, the set of the construction
C30_Witness ==
  /\ last.op = "subscribe" /\ last.s = "br" /\ ~last.exc
  /\ Invs(log) # {}
  /\ value["f"] # 0 /\ value["a"] # value["b"]
  /\ deps["br"] = <<"f", "b">>
  /\ SubscribedTo("br") = {"f", "b"}

\* ---------------------------------------------------------------------- C31
\* C31: the constructor of a computed signal runs the computation exactly
\* once and leaves the signal without listeners and without cleanups; the
\* subscribe that gives it its first listener runs the computation exactly
\* once more.
C31_Step ==
  /\ (last'.op = "create" /\ Kind(last'.s) = "computed" /\ ~last'.exc)
       => /\ Cardinality(RunsOf(log', last'.s)) = 1
          /\ listeners'[last'.s] = <<>>
          /\ cleanups'[last'.s] = <<>>
  /\ (last'.op = "subscribe" /\ Kind(last'.s) = "computed" /\ ~last'.exc
        /\ listeners[last'.s] = <<>>)
       => Cardinality(RunsOf(log', last'.s)) = 1

C31_ConstructRunsOnce == [][C31_Step]_vars

\* ---------------------------------------------------------------------- C32
\* the computation of d reads the same signals, in the same order, whatever
\* it reads, and never throws
Steady(d) ==
  /\ \A n \in 0..Len(Args(d)) : \A vs \in [1..n -> Val] :
       NextRead(d, vs) = (IF n < Len(Args(d)) THEN Args(d)[n + 1] ELSE "-")
  /\ \A vs \in [1..Len(Args(d)) -> Val] : ~Throws(d, vs)

\* C32: between calls, a computed signal with the default equality, a
\* computation that always reads the same signals and never throws, and at
\* least one listener returns from read() what its computation gives over
\* the current values of its dependencies, whatever calls were made before,
\* listeners that write to a dependency while they are called (also in the
\* delivery made by the first subscribe) included.
C32_ActiveComputedIsCurrent ==
  \A d \in created :
    (/\ Kind(d) = "computed" /\ Steady(d)
     /\ equal[d] = "strict"
     /\ SetSize(listeners[d]) >= 1)
      => Read(Pack, d).v = Fn(d, ReadArgs(Pack, d, <<>>).vs)

\* ---------------------------------------------------------------------- C33
\* what the computation of s gives when every derived signal it reads is
\* itself evaluated anew over the values val of the writable signals
RECURSIVE UpToDate(_, _)
UpToDate(s, val) ==
  IF Kind(s) = "signal" THEN val[s]
  ELSE Fn(s, [i \in 1..Len(Args(s)) |-> UpToDate(Args(s)[i], val)])

\* the listener calls a computed signal d made to the callers' listeners
Delivered(lg, d) == {i \in Invs(lg) : lg[i].s = d /\ lg[i].l.k = "ext"}

\* C33: every value a listener of a computed signal with listeners is called
\* with is what its computation gives with all of its dependencies up to
\* date; in a diamond (mid over a, dia and dib over a and mid, read in either
\* order) one write to a calls each listener of dia / dib at most once, and
\* never with a value computed from the new a and the old cached mid.
C33_Step ==
  (last'.op \in {"set", "update"} /\ Kind(last'.s) = "signal") =>
    \A d \in {s \in created : Kind(s) = "computed" /\ Steady(s)} :
      /\ \A i \in Delivered(log', d) : log'[i].v = UpToDate(d, value')
      /\ \A l \in Range(listeners[d]) : Calls(log', d, l) <= 1

C33_GlitchFree == [][C33_Step]_vars

\* ---------------------------------------------------------------------- C34
\* the calls of listener l of signal s in the log lg
CallsOf(lg, s, l) == {i \in Invs(lg) : lg[i].s = s /\ lg[i].l = l}

\* C34: when a set/update of a writable or linked signal has returned
\* normally, every listener still subscribed to it that was called during
\* the call was last called with the value the signal then holds, also when
\* a listener wrote another value to the same signal during the pass.
C34_Step ==
  (last'.op \in {"set", "update"} /\ last'.s \in Writable /\ ~last'.exc) =>
    \A l \in Range(listeners'[last'.s]) :
      CallsOf(log', last'.s, l) # {}
        => log'[MaxOf(CallsOf(log', last'.s, l))].v = value'[last'.s]

C34_LastSeenIsStored == [][C34_Step]_vars

\* ---------------------------------------------------------------------- C35
\* C35: subscribe(l) on a derived signal that has a listener adds l and does
\* nothing else: no listener is called, no computation runs, no handler is
\* subscribed to a dependency, no cleanup is recorded and no value changes;
\* subscribe on a writable signal calls no listener and leaves the stored
\* values as they are, as does each subscribe of a handler to a writable
\* signal made by an activation (no listener of a writable signal is called
\* unless a listener that writes was called); the subscribe that gives a
\* derived signal its first listener is the one that calls the listener, with
\* the value then stored.
C35_Step ==
  last'.op = "subscribe" =>
    LET s == last'.s IN
    /\ (Kind(s) # "signal" /\ listeners[s] # <<>>)
         => /\ listeners' = [listeners EXCEPT ![s] = SetAdd(@, last'.l)]
            /\ log' = <<>>
            /\ cleanups' = cleanups
            /\ value' = value
            /\ ~last'.exc
    /\ Kind(s) = "signal"
         => /\ listeners' = [listeners EXCEPT ![s] = SetAdd(@, last'.l)]
            /\ log' = <<>>
            /\ value' = value
    /\ RCalls(log') = {} => \A i \in Invs(log') : Kind(log'[i].s) # "signal"
    /\ (Kind(s) # "signal" /\ listeners[s] = <<>> /\ ~last'.exc)
         => /\ Cardinality(CallsOf(log', s, last'.l)) = 1
            /\ \A i \in CallsOf(log', s, last'.l) : log'[i].p = 0 /\ log'[i].v = log'[i].rd

C35_OnlyActivationDelivers == [][C35_Step]_vars

\* L2 was subscribed to sum while L1 was listening and sum held a value that
\* the construction did not give: nothing ran, sum stays subscribed to a and
\* b once, and L2 stands behind L1
C35_Witness ==
  /\ last.op = "subscribe" /\ last.s = "sum" /\ last.l = Ext("L2")
  /\ listeners["sum"] = <<Ext("L1"), Ext("L2")>>
  /\ log = <<>>
  /\ listeners["a"] = <<Pass("sum")>> /\ listeners["b"] = <<Pass("sum")>>
  /\ Len(cleanups["sum"]) = 2
  /\ value["sum"] = MaxVal

====
